---- MODULE Spec2Model ----
(***************************************************************************)
(* Model of the model generator that go-project-gen scaffolds              *)
(* (internal/generator/templates/tmpls/modelgen_script.tmpl): the SQL DDL  *)
(* interpreter that folds migration statements into a schema store and     *)
(* the emitter that writes one artifact per table.                         *)
(*                                                                         *)
(* SQL text is modelled as text: a statement is a TLA+ string and the      *)
(* regular expressions, strings.Fields, strings.ToUpper, ... of the source *)
(* are operators that work on its characters.                              *)
(***************************************************************************)
EXTENDS Integers, Sequences, FiniteSets, TLC

(***************************************************************************)
(* Go's strings package, on TLA+ strings.                                  *)
(***************************************************************************)
Ch(s, i) == SubSeq(s, i, i)

Space == {" ", "\t", "\n", "\r"}

LowerLetters == "abcdefghijklmnopqrstuvwxyz"

UpperLetters == "ABCDEFGHIJKLMNOPQRSTUVWXYZ"

\* The letter pairs <<from[i], to[i]>> as a function from[i] -> to[i].
RECURSIVE letterMap(_, _, _)
letterMap(from, to, i) ==
    IF i = 0 THEN <<>> ELSE letterMap(from, to, i - 1) @@ (Ch(from, i) :> Ch(to, i))

upperOf == letterMap(LowerLetters, UpperLetters, 26)

lowerOf == letterMap(UpperLetters, LowerLetters, 26)

RECURSIVE MapChars(_, _, _)
MapChars(s, i, f) ==
    IF i > Len(s) THEN ""
    ELSE (IF Ch(s, i) \in DOMAIN f THEN f[Ch(s, i)] ELSE Ch(s, i)) \o MapChars(s, i + 1, f)

ToUpper(s) == MapChars(s, 1, upperOf)

ToLower(s) == MapChars(s, 1, lowerOf)

HasPrefix(s, prefix) ==
    Len(s) >= Len(prefix) /\ SubSeq(s, 1, Len(prefix)) = prefix

HasSuffix(s, suffix) ==
    Len(s) >= Len(suffix) /\ SubSeq(s, Len(s) - Len(suffix) + 1, Len(s)) = suffix

\* strings.Index: the 1-based position of the first occurrence, 0 when absent.
Index(s, sub) ==
    LET hits == {i \in 1..(Len(s) - Len(sub) + 1) : SubSeq(s, i, i + Len(sub) - 1) = sub}
    IN  IF hits = {} THEN 0 ELSE CHOOSE i \in hits : \A j \in hits : i <= j

Contains(s, sub) == Index(s, sub) > 0

\* The position after the longest run of white space that starts at i.
RECURSIVE SkipSpace(_, _)
SkipSpace(s, i) ==
    IF i <= Len(s) /\ Ch(s, i) \in Space THEN SkipSpace(s, i + 1) ELSE i

\* The position after the longest run, starting at i, of characters not in stop.
RECURSIVE RunEnd(_, _, _)
RunEnd(s, i, stop) ==
    IF i = 0 THEN 0
    ELSE IF i <= Len(s) /\ Ch(s, i) \notin stop THEN RunEnd(s, i + 1, stop) ELSE i

\* The position before the longest run of cutset characters that ends at i.
RECURSIVE TrimEnd(_, _, _)
TrimEnd(s, i, cutset) ==
    IF i >= 1 /\ Ch(s, i) \in cutset THEN TrimEnd(s, i - 1, cutset) ELSE i

Trim(s, cutset) ==
    LET a == RunEnd(s, 1, {c \in {Ch(s, i) : i \in 1..Len(s)} : c \notin cutset})
    IN  SubSeq(s, a, TrimEnd(s, Len(s), cutset))

TrimSpace(s) == Trim(s, Space)

\* strings.Fields: the maximal runs of characters that are not white space.
RECURSIVE FieldsFrom(_, _)
FieldsFrom(s, i) ==
    LET a == SkipSpace(s, i)
        b == RunEnd(s, a, Space)
    IN  IF a > Len(s) THEN <<>> ELSE <<SubSeq(s, a, b - 1)>> \o FieldsFrom(s, b)

Fields(s) == FieldsFrom(s, 1)

\* strings.Split on a one-character separator.
RECURSIVE SplitFrom(_, _, _)
SplitFrom(s, i, sep) ==
    LET b == RunEnd(s, i, {sep})
    IN  IF b > Len(s) THEN <<SubSeq(s, i, Len(s))>>
        ELSE <<SubSeq(s, i, b - 1)>> \o SplitFrom(s, b + 1, sep)

Split(s, sep) == IF s = "" THEN <<"">> ELSE SplitFrom(s, 1, sep)

(***************************************************************************)
(* The pieces of the regular expressions.  A position is 1-based; 0 means  *)
(* that the piece did not match.                                           *)
(***************************************************************************)
\* (?i)kw at position i.
Lit(s, i, kw) ==
    IF i > 0 /\ i + Len(kw) - 1 <= Len(s) /\ ToUpper(SubSeq(s, i, i + Len(kw) - 1)) = kw
    THEN i + Len(kw) ELSE 0

\* \s+ at position i.
Sp1(s, i) ==
    IF i > 0 /\ i <= Len(s) /\ Ch(s, i) \in Space THEN SkipSpace(s, i) ELSE 0

\* (?i)kw1\s+kw2\s+... at position i.
RECURSIVE Kws(_, _, _)
Kws(s, i, kws) ==
    IF kws = <<>> THEN i
    ELSE IF Len(kws) = 1 THEN Lit(s, i, kws[1])
    ELSE Kws(s, Sp1(s, Lit(s, i, kws[1])), Tail(kws))

NoMatch == [ok |-> FALSE, m1 |-> "", m2 |-> ""]

\* \s+([^;]+) at position i: the captured text, or "" when it does not match.
\* \s+ is greedy and gives its last character back when nothing else is left.
TailGroup(s, i) ==
    LET a == Sp1(s, i)
    IN  IF a = 0 THEN ""
        ELSE IF a <= Len(s) /\ Ch(s, a) # ";" THEN SubSeq(s, a, RunEnd(s, a, {";"}) - 1)
        ELSE IF a - i >= 2 THEN Ch(s, a - 1)
        ELSE ""

\* The first of two alternatives that matches.
orElse(first, second) == IF first.ok THEN first ELSE second

\* The leftmost of the anchored matches at the positions of the text; hits
\* holds one record [pos, m] for each position.
firstMatch(hits) ==
    IF \A h \in hits : ~h.m.ok THEN NoMatch
    ELSE (CHOOSE h \in hits : h.m.ok /\ \A g \in hits : g.m.ok => h.pos <= g.pos).m

\* ([^\s(]+)\s*\(([^;]+) with the name at r..e-1, the parenthesis at f and
\* the body ending before g.
createMatch(s, r, e, f, g) ==
    IF r > 0 /\ e > r /\ f <= Len(s) /\ Ch(s, f) = "(" /\ g > f + 1
    THEN [ok |-> TRUE, m1 |-> SubSeq(s, r, e - 1), m2 |-> SubSeq(s, f + 1, g - 1)]
    ELSE NoMatch

createBody(s, r, e, f) == createMatch(s, r, e, f, RunEnd(s, f + 1, {";"}))

createParen(s, r, e) == createBody(s, r, e, SkipSpace(s, e))

createName(s, r) == createParen(s, r, RunEnd(s, r, Space \cup {"("}))

\* (?:IF\s+NOT\s+EXISTS\s+)? and the rest, after CREATE\s+TABLE\s+ has
\* matched up to p: with the optional group first, without it otherwise.
createAfterTable(s, p) ==
    orElse(createName(s, Sp1(s, Kws(s, p, <<"IF", "NOT", "EXISTS">>))), createName(s, p))

\* createTableRegex anchored at position i.
createTableAt(s, i) == createAfterTable(s, Sp1(s, Kws(s, i, <<"CREATE", "TABLE">>)))

createTableRegex(s) == firstMatch({[pos |-> i, m |-> createTableAt(s, i)] : i \in 1..Len(s)})

\* ALTER\s+TABLE\s+(?:IF\s+EXISTS\s+)?([^\s]+)\s+<verb>(?:\s+COLUMN)?(?:\s+<ifkws>)?\s+([^;]+)
\* anchored at position i; ifkws = <<>> when the pattern has no IF clause.
\* The pieces below take the positions matched so far: the table name at
\* r..e-1, the end v of the verb, the end c of COLUMN (0 when absent).
ifClause(s, x, ifkws) == IF ifkws = <<>> THEN 0 ELSE Kws(s, Sp1(s, x), ifkws)

\* The tail is tried with both optional groups, then with COLUMN only, then
\* with the IF clause only, then with neither.
firstTail(both, column, clause, neither) ==
    IF both # "" THEN both
    ELSE IF column # "" THEN column
    ELSE IF clause # "" THEN clause
    ELSE neither

alterMatch(s, r, e, tail) ==
    IF r > 0 /\ e > r /\ tail # ""
    THEN [ok |-> TRUE, m1 |-> SubSeq(s, r, e - 1), m2 |-> tail]
    ELSE NoMatch

alterColumn(s, r, e, v, c, ifkws) ==
    alterMatch(s, r, e,
               firstTail(TailGroup(s, ifClause(s, c, ifkws)), TailGroup(s, c),
                         TailGroup(s, ifClause(s, v, ifkws)), TailGroup(s, v)))

alterVerb(s, r, e, v, ifkws) == alterColumn(s, r, e, v, Lit(s, Sp1(s, v), "COLUMN"), ifkws)

alterName(s, r, e, verb, ifkws) == alterVerb(s, r, e, Lit(s, Sp1(s, e), verb), ifkws)

alterAfterExists(s, r, verb, ifkws) == alterName(s, r, RunEnd(s, r, Space), verb, ifkws)

alterAfterTable(s, p, verb, ifkws) ==
    orElse(alterAfterExists(s, Sp1(s, Kws(s, p, <<"IF", "EXISTS">>)), verb, ifkws),
           alterAfterExists(s, p, verb, ifkws))

alterTableAt(s, i, verb, ifkws) ==
    alterAfterTable(s, Sp1(s, Kws(s, i, <<"ALTER", "TABLE">>)), verb, ifkws)

alterTableAddAt(s, i) == alterTableAt(s, i, "ADD", <<"IF", "NOT", "EXISTS">>)

alterTableAddRegex(s) ==
    firstMatch({[pos |-> i, m |-> alterTableAddAt(s, i)] : i \in 1..Len(s)})

alterTableAlterAt(s, i) == alterTableAt(s, i, "ALTER", <<>>)

alterTableAlterRegex(s) ==
    firstMatch({[pos |-> i, m |-> alterTableAlterAt(s, i)] : i \in 1..Len(s)})

alterTableDropAt(s, i) == alterTableAt(s, i, "DROP", <<"IF", "EXISTS">>)

alterTableDropRegex(s) ==
    firstMatch({[pos |-> i, m |-> alterTableDropAt(s, i)] : i \in 1..Len(s)})

\* primaryKeyRegex anchored at position i: PRIMARY\s+KEY\s*\(([^)]+)\)
primaryKeyMatch(s, k, f, g) ==
    IF k > 0 /\ f <= Len(s) /\ Ch(s, f) = "(" /\ g > f + 1 /\ g <= Len(s)
    THEN [ok |-> TRUE, m1 |-> SubSeq(s, f + 1, g - 1), m2 |-> ""]
    ELSE NoMatch

primaryKeyParen(s, k, f) == primaryKeyMatch(s, k, f, RunEnd(s, f + 1, {")"}))

primaryKeyKey(s, k) == primaryKeyParen(s, k, IF k = 0 THEN 0 ELSE SkipSpace(s, k))

primaryKeyAt(s, i) == primaryKeyKey(s, Kws(s, i, <<"PRIMARY", "KEY">>))

primaryKeyRegex(s) == firstMatch({[pos |-> i, m |-> primaryKeyAt(s, i)] : i \in 1..Len(s)})

(***************************************************************************)
(* The schema store: TableInfo and ColumnInfo.  GoName and Tags of a       *)
(* column are functions of its Name alone and are left out.                *)
(***************************************************************************)
\* cleanIdentifier removes the schema prefix and the quotes of an identifier.
\* (The source's cutset also holds the backquote, which no TLA+ string can
\* hold; no statement of the model contains one.)
cleanIdentifier(identifier) ==
    LET parts == Split(identifier, ".")
        last  == IF Contains(identifier, ".") THEN parts[Len(parts)] ELSE identifier
    IN  TrimSpace(Trim(last, {"\"", "'"}))

\* The type switch with two of its cases and without its default.
mapKnownTypes(pgType, isNullable) ==
    IF ToLower(pgType) \in {"int", "text"}
    THEN (IF isNullable THEN "*" ELSE "") \o (IF ToLower(pgType) = "int" THEN "int" ELSE "string")
    ELSE ""

mapPostgreSQLTypeToGo(pgType, isNullable) ==
    LET lowerType == ToLower(pgType)
        opt(t) == IF isNullable THEN "*" \o t ELSE t
    IN  CASE lowerType \in {"integer", "smallint", "int", "smallserial", "serial"} -> opt("int")
          [] lowerType \in {"bigint", "bigserial"} -> opt("int64")
          [] lowerType \in {"numeric", "decimal", "real", "double precision", "float",
                            "float4", "float8"} -> opt("float64")
          [] lowerType \in {"boolean", "bool"} -> opt("bool")
          [] lowerType \in {"text", "character varying", "varchar", "char", "character",
                            "citext"} -> opt("string")
          [] lowerType \in {"date", "timestamp", "timestamp with time zone",
                            "timestamp without time zone", "timestamptz"} -> opt("time.Time")
          [] lowerType = "uuid" -> opt("string")
          [] lowerType \in {"jsonb", "json"} -> "json.RawMessage"
          [] OTHER -> opt("string")

\* The fragments of a column list split at every comma, whatever parenCount is.
splitAtEveryComma(columnsDef, i, parenCount, start) ==
    LET raw == Split(columnsDef, ",")
    IN  SelectSeq([k \in 1..Len(raw) |-> TrimSpace(raw[k])], LAMBDA p : p # "")

\* The fragments of a column list: split at the commas met while parenCount is 0,
\* trimmed, the empty ones dropped.
RECURSIVE splitParts(_, _, _, _)
splitParts(columnsDef, i, parenCount, start) ==
    LET char  == Ch(columnsDef, i)
        count == IF char = "(" THEN parenCount + 1
                 ELSE IF char = ")" THEN parenCount - 1 ELSE parenCount
        part  == TrimSpace(SubSeq(columnsDef, start, i - 1))
        emit  == IF part = "" THEN <<>> ELSE <<part>>
    IN  IF i > Len(columnsDef) THEN emit
        ELSE IF char = "," /\ count = 0
             THEN emit \o splitParts(columnsDef, i + 1, count, i + 1)
             ELSE splitParts(columnsDef, i + 1, count, start)

\* Whether the words from position 3 on hold the token pair <<first, second>>.
hasTokens(words, first, second) ==
    \E i \in 3..Len(words) :
        /\ ToUpper(words[i]) = first
        /\ i + 1 <= Len(words)
        /\ ToUpper(words[i + 1]) = second

\* The column a fragment declares, as a sequence of zero or one ColumnInfo.
partColumn(part) ==
    LET upperPart == ToUpper(part)
        words     == Fields(part)
        colType   == IF Contains(words[2], "(")
                     THEN SubSeq(words[2], 1, Index(words[2], "(") - 1)
                     ELSE words[2]
        primary   == hasTokens(words, "PRIMARY", "KEY")
    IN  IF \/ HasPrefix(upperPart, "CONSTRAINT")
           \/ HasPrefix(upperPart, "PRIMARY KEY")
           \/ HasPrefix(upperPart, "FOREIGN KEY")
           \/ HasPrefix(upperPart, "UNIQUE")
           \/ HasPrefix(upperPart, "CHECK")
        THEN <<>>
        ELSE IF Len(words) < 2 THEN <<>>
        ELSE <<[Name         |-> cleanIdentifier(words[1]),
                Type         |-> ToLower(colType),
                GoType       |-> "",
                IsNullable   |-> ~hasTokens(words, "NOT", "NULL") /\ ~primary,
                IsPrimaryKey |-> primary]>>

RECURSIVE partColumns(_)
partColumns(parts) ==
    IF parts = <<>> THEN <<>> ELSE partColumn(Head(parts)) \o partColumns(Tail(parts))

extractColumnDefinitions(columnsDef) == partColumns(splitParts(columnsDef, 1, 0, 1))

RECURSIVE cleanAll(_)
cleanAll(names) ==
    IF names = <<>> THEN <<>>
    ELSE <<cleanIdentifier(TrimSpace(Head(names)))>> \o cleanAll(Tail(names))

extractPrimaryKeysFromConstraints(columnsDef) ==
    LET pkMatches == primaryKeyRegex(columnsDef)
    IN  IF pkMatches.ok THEN cleanAll(Split(pkMatches.m1, ",")) ELSE <<>>

isPrimaryKey(columnName, primaryKeys) ==
    \E i \in 1..Len(primaryKeys) : primaryKeys[i] = columnName

\* The test of existence that finds nothing.
columnNeverExists(columns, columnName) == FALSE

columnExists(columns, columnName) ==
    \E i \in 1..Len(columns) : columns[i].Name = columnName

(***************************************************************************)
(* processMigrationContent: the effect of one statement on the store.      *)
(* The store maps a table name to its TableInfo.                           *)
(***************************************************************************)
put(tbls, tableName, table) ==
    [t \in DOMAIN tbls \cup {tableName} |-> IF t = tableName THEN table ELSE tbls[t]]

\* Whether the CREATE TABLE loop skips a column for its name.
skipAsConstraint(colName) ==
    \/ HasPrefix(ToUpper(colName), "CONSTRAINT")
    \/ HasPrefix(ToUpper(colName), "PRIMARY")
    \/ HasPrefix(ToUpper(colName), "FOREIGN")
    \/ HasPrefix(ToUpper(colName), "UNIQUE")
    \/ HasPrefix(ToUpper(colName), "CHECK")

\* The body of the CREATE TABLE loop for one extracted column.
createColumn(col, primaryKeys) ==
    LET colName  == cleanIdentifier(col.Name)
        primary  == isPrimaryKey(colName, primaryKeys)
        nullable == IF primary THEN FALSE ELSE col.IsNullable
    IN  [col EXCEPT !.IsPrimaryKey = primary,
                    !.IsNullable   = nullable,
                    !.GoType       = mapPostgreSQLTypeToGo(col.Type, nullable)]

RECURSIVE createColumns(_, _)
createColumns(columns, primaryKeys) ==
    IF columns = <<>> THEN <<>>
    ELSE (IF skipAsConstraint(cleanIdentifier(Head(columns).Name)) THEN <<>>
          ELSE <<createColumn(Head(columns), primaryKeys)>>)
         \o createColumns(Tail(columns), primaryKeys)

\* The CREATE TABLE branch: the table is built anew and replaces the entry.
createTable(tbls, e) == put(tbls, e.tableName, e.table)

\* The ADD loop with the new column put in front of the columns of the table.
RECURSIVE addColumnsInFront(_, _)
addColumnsInFront(existing, columns) ==
    IF columns = <<>> THEN existing
    ELSE LET col == Head(columns)
         IN  IF columnExists(existing, cleanIdentifier(col.Name))
             THEN addColumnsInFront(existing, Tail(columns))
             ELSE addColumnsInFront(
                    <<[col EXCEPT !.GoType = mapPostgreSQLTypeToGo(col.Type, col.IsNullable)]>>
                    \o existing,
                    Tail(columns))

\* The ADD loop: each extracted column is appended unless its name is there.
RECURSIVE addColumns(_, _)
addColumns(existing, columns) ==
    IF columns = <<>> THEN existing
    ELSE LET col == Head(columns)
         IN  IF columnExists(existing, cleanIdentifier(col.Name))
             THEN addColumns(existing, Tail(columns))
             ELSE addColumns(
                    Append(existing,
                           [col EXCEPT !.GoType = mapPostgreSQLTypeToGo(col.Type, col.IsNullable)]),
                    Tail(columns))

\* The ADD branch without the test that the table exists: the lookup gives
\* the zero TableInfo and the branch stores it with the new columns.
alterTableAddUnchecked(tbls, e) ==
    put(tbls, e.tableName,
        [TableName |-> IF e.tableName \in DOMAIN tbls THEN tbls[e.tableName].TableName ELSE "",
         Columns   |-> addColumns(IF e.tableName \in DOMAIN tbls
                                  THEN tbls[e.tableName].Columns ELSE <<>>,
                                  e.columns)])

alterTableAdd(tbls, e) ==
    IF e.tableName \notin DOMAIN tbls THEN tbls
    ELSE put(tbls, e.tableName,
             [tbls[e.tableName] EXCEPT !.Columns = addColumns(@, e.columns)])

\* TYPE without the derived type worked out again.
alterTypeKeepingGoType(col, parts) ==
    IF ToUpper(parts[2]) = "TYPE" /\ Len(parts) > 2
    THEN [col EXCEPT !.Type = parts[3]]
    ELSE col

\* The three actions of ALTER COLUMN on the located column.
alterType(col, parts) ==
    LET action  == ToUpper(parts[2])
        newType == IF Contains(parts[3], "(")
                   THEN SubSeq(parts[3], 1, Index(parts[3], "(") - 1)
                   ELSE parts[3]
    IN  IF action = "TYPE" /\ Len(parts) > 2
        THEN [col EXCEPT !.Type = newType,
                         !.GoType = mapPostgreSQLTypeToGo(newType, col.IsNullable)]
        ELSE col

\* SET NOT NULL without the derived type worked out again.
alterSetNotNullKeepingType(col, parts) ==
    IF /\ ToUpper(parts[2]) = "SET"
       /\ Len(parts) > 2 /\ ToUpper(parts[3]) = "NOT"
       /\ Len(parts) > 3 /\ ToUpper(parts[4]) = "NULL"
    THEN [col EXCEPT !.IsNullable = FALSE]
    ELSE col

alterSetNotNull(col, parts) ==
    IF /\ ToUpper(parts[2]) = "SET"
       /\ Len(parts) > 2 /\ ToUpper(parts[3]) = "NOT"
       /\ Len(parts) > 3 /\ ToUpper(parts[4]) = "NULL"
    THEN [col EXCEPT !.IsNullable = FALSE, !.GoType = mapPostgreSQLTypeToGo(col.Type, FALSE)]
    ELSE col

alterDropNotNull(col, parts) ==
    IF /\ ToUpper(parts[2]) = "DROP"
       /\ Len(parts) > 2 /\ ToUpper(parts[3]) = "NOT"
       /\ Len(parts) > 3 /\ ToUpper(parts[4]) = "NULL"
    THEN [col EXCEPT !.IsNullable = TRUE, !.GoType = mapPostgreSQLTypeToGo(col.Type, TRUE)]
    ELSE col

\* The search loop of ALTER COLUMN without the test of the name: every column
\* of the table is altered.
alterEveryColumn(columns, colName, parts) ==
    [i \in 1..Len(columns) |->
        alterDropNotNull(alterSetNotNull(alterType(columns[i], parts), parts), parts)]

\* The search loop of ALTER COLUMN: the first column with the name is altered.
alterColumns(columns, colName, parts) ==
    LET found == {i \in 1..Len(columns) : columns[i].Name = colName}
        first == CHOOSE i \in found : \A j \in found : i <= j
    IN  IF found = {} THEN columns
        ELSE [columns EXCEPT
                ![first] = alterDropNotNull(alterSetNotNull(alterType(@, parts), parts), parts)]

alterTableAlter(tbls, e) ==
    IF e.tableName \notin DOMAIN tbls THEN tbls
    ELSE IF Len(e.parts) < 2 THEN tbls
    ELSE put(tbls, e.tableName,
             [tbls[e.tableName] EXCEPT
                !.Columns = alterColumns(@, cleanIdentifier(e.parts[1]), e.parts)])

\* The DROP loop leaving at the column it drops: the columns behind it are lost.
dropFromColumn(columns, colName) ==
    LET found == {i \in 1..Len(columns) : columns[i].Name = colName}
    IN  IF found = {} THEN columns
        ELSE SubSeq(columns, 1, (CHOOSE i \in found : \A j \in found : i <= j) - 1)

\* The DROP loop keeps the columns whose name differs.
dropColumn(columns, colName) ==
    SelectSeq(columns, LAMBDA col : col.Name # colName)

alterTableDrop(tbls, e) ==
    IF e.tableName \notin DOMAIN tbls THEN tbls
    ELSE put(tbls, e.tableName,
             [tbls[e.tableName] EXCEPT !.Columns = dropColumn(@, e.colName)])

\* What the statement loop reads off a statement before it touches the store:
\* the branch whose pattern matches first, the table it names, and the
\* branch's own parse (the table CREATE TABLE builds, the columns of the ADD
\* clause, the words of the ALTER clause, the column DROP names).
noEffect(branch) ==
    [branch |-> branch, tableName |-> "", table |-> [TableName |-> "", Columns |-> <<>>],
     columns |-> <<>>, parts |-> <<>>, colName |-> ""]

\* The CREATE TABLE branch up to the store: the table the statement declares.
createEffect(tableName, columnsDef) ==
    [noEffect("create") EXCEPT
        !.tableName = tableName,
        !.table = [TableName |-> tableName,
                   Columns   |-> createColumns(extractColumnDefinitions(columnsDef),
                                               extractPrimaryKeysFromConstraints(columnsDef))]]

\* The chain of branches, given what each expression finds in the statement.
branchEffect(s, create, add, alter, drop) ==
    IF s = "" THEN noEffect("empty")
    ELSE IF create.ok THEN createEffect(cleanIdentifier(create.m1), create.m2)
    ELSE IF add.ok THEN
        [noEffect("add") EXCEPT
            !.tableName = cleanIdentifier(add.m1),
            !.columns = extractColumnDefinitions(add.m2 \o ",")]
    ELSE IF alter.ok THEN
        [noEffect("alter") EXCEPT
            !.tableName = cleanIdentifier(alter.m1),
            !.parts = Fields(alter.m2)]
    ELSE IF drop.ok THEN
        [noEffect("drop") EXCEPT
            !.tableName = cleanIdentifier(drop.m1),
            !.colName = cleanIdentifier(drop.m2)]
    ELSE noEffect("unrecognized")

trimmedEffect(s) ==
    branchEffect(s, createTableRegex(s), alterTableAddRegex(s), alterTableAlterRegex(s),
                 alterTableDropRegex(s))

statementEffect(statement) == trimmedEffect(TrimSpace(statement))

\* The body of the statement loop with a last branch that takes the table
\* users out of the store.
applyEffectOrDrop(tbls, e) ==
    CASE e.branch = "create" -> createTable(tbls, e)
      [] e.branch = "add"    -> alterTableAdd(tbls, e)
      [] e.branch = "alter"  -> alterTableAlter(tbls, e)
      [] e.branch = "drop"   -> alterTableDrop(tbls, e)
      [] OTHER               -> [t \in DOMAIN tbls \ {"users"} |-> tbls[t]]

\* The body of the statement loop.
applyEffect(tbls, e) ==
    CASE e.branch = "create" -> createTable(tbls, e)
      [] e.branch = "add"    -> alterTableAdd(tbls, e)
      [] e.branch = "alter"  -> alterTableAlter(tbls, e)
      [] e.branch = "drop"   -> alterTableDrop(tbls, e)
      [] OTHER               -> tbls

(***************************************************************************)
(* splitStatements: comments are stripped line by line and a statement is  *)
(* closed at the end of a line whose uncommented part holds a semicolon.   *)
(***************************************************************************)
\* The first position from i on where sub starts, 0 when there is none.
IndexFrom(s, sub, i) ==
    LET hits == {j \in i..(Len(s) - Len(sub) + 1) : SubSeq(s, j, j + Len(sub) - 1) = sub}
    IN  IF hits = {} THEN 0 ELSE CHOOSE j \in hits : \A k \in hits : j <= k

\* The inner loop over one line from position i on: the uncommented part of
\* the line and the multi-line comment state at its end.  Inside a
\* multi-line comment the loop looks for the closing mark only; outside, the
\* first of "--" and "/*" decides: "--" drops the rest of the line, "/*"
\* opens a comment behind which the loop goes on.
\* The line as it is, comments and all.
keepComments(line, i, inMultiLineComment) ==
    [processedLine |-> SubSeq(line, i, Len(line)), inMultiLineComment |-> FALSE]

RECURSIVE scanLine(_, _, _)
scanLine(line, i, inMultiLineComment) ==
    IF inMultiLineComment
    THEN LET close == IndexFrom(line, "*/", i)
         IN  IF close = 0
             THEN [processedLine |-> "", inMultiLineComment |-> TRUE]
             ELSE scanLine(line, close + 2, FALSE)
    ELSE LET dash == IndexFrom(line, "--", i)
             open == IndexFrom(line, "/*", i)
         IN  IF dash = 0 /\ open = 0
             THEN [processedLine |-> SubSeq(line, i, Len(line)),
                   inMultiLineComment |-> FALSE]
             ELSE IF open = 0 \/ (dash # 0 /\ dash < open)
             THEN [processedLine |-> SubSeq(line, i, dash - 1),
                   inMultiLineComment |-> FALSE]
             ELSE LET rest == scanLine(line, open + 2, TRUE)
                  IN  [processedLine |-> SubSeq(line, i, open - 1) \o rest.processedLine,
                       inMultiLineComment |-> rest.inMultiLineComment]

\* bufio.Scanner's lines: split at the line feeds, a carriage return before
\* a line feed dropped.
scanLines(content) ==
    LET raw == Split(content, "\n")
    IN  [k \in 1..Len(raw) |->
            IF HasSuffix(raw[k], "\r") THEN SubSeq(raw[k], 1, Len(raw[k]) - 1) ELSE raw[k]]

\* The outer loop from line k on.
RECURSIVE splitLines(_, _, _, _)
splitLines(lines, k, inMultiLineComment, currentStmt) ==
    IF k > Len(lines)
    THEN IF TrimSpace(currentStmt) # "" THEN <<TrimSpace(currentStmt)>> ELSE <<>>
    ELSE LET scanned  == scanLine(lines[k], 1, inMultiLineComment)
             linePart == scanned.processedLine
             current  == currentStmt \o linePart \o "\n"
         IN  IF TrimSpace(linePart) = ""
             THEN splitLines(lines, k + 1, scanned.inMultiLineComment, currentStmt)
             ELSE IF Contains(linePart, ";")
             THEN <<TrimSpace(current)>>
                  \o splitLines(lines, k + 1, scanned.inMultiLineComment, "")
             ELSE splitLines(lines, k + 1, scanned.inMultiLineComment, current)

splitStatements(content) == splitLines(scanLines(content), 1, FALSE, "")

(***************************************************************************)
(* parseAllMigrations: the files it takes and the order it gives them.     *)
(***************************************************************************)
Digits == "0123456789"

\* strconv.Atoi: the value of an optionally signed run of decimal digits;
\* ok is FALSE for anything else.
RECURSIVE digitsValue(_, _, _)
digitsValue(text, i, acc) ==
    IF i > Len(text) THEN acc
    ELSE digitsValue(text, i + 1, 10 * acc + Index(Digits, Ch(text, i)) - 1)

Atoi(text) ==
    LET signed == text # "" /\ Ch(text, 1) \in {"+", "-"}
        digits == IF signed THEN SubSeq(text, 2, Len(text)) ELSE text
        value  == digitsValue(digits, 1, 0)
    IN  IF digits = "" \/ \E i \in 1..Len(digits) : ~Contains(Digits, Ch(digits, i))
        THEN [ok |-> FALSE, value |-> 0]
        ELSE [ok |-> TRUE, value |-> IF signed /\ Ch(text, 1) = "-" THEN 0 - value ELSE value]

\* filepath.Base of a slash-separated path without a trailing slash.
Base(path) == LET elems == Split(path, "/") IN elems[Len(elems)]

extractVersionNumber(filename) ==
    LET parts   == Split(Base(filename), "_")
        version == Atoi(parts[1])
    IN  IF version.ok THEN version.value ELSE 0

\* The walk callback without the test of the suffix: every regular file.
regularFiles(entries) == SelectSeq(entries, LAMBDA f : ~f.isDir)

\* The walk callback: the regular files whose path ends in .up.sql, in the
\* order of the walk.
upFiles(entries) == SelectSeq(entries, LAMBDA f : ~f.isDir /\ HasSuffix(f.path, ".up.sql"))

\* The files left in the order of the walk.
keepWalkOrder(files) == files

\* sort.Slice by version.  For the at most twelve files of a model directory
\* it is an insertion sort: files of equal version keep the order of the walk.
RECURSIVE insertByVersion(_, _)
insertByVersion(sorted, f) ==
    IF sorted = <<>> THEN <<f>>
    ELSE IF extractVersionNumber(f.path) < extractVersionNumber(sorted[Len(sorted)].path)
    THEN Append(insertByVersion(SubSeq(sorted, 1, Len(sorted) - 1), f), sorted[Len(sorted)])
    ELSE Append(sorted, f)

RECURSIVE sortByVersion(_)
sortByVersion(files) ==
    IF files = <<>> THEN <<>>
    ELSE insertByVersion(sortByVersion(SubSeq(files, 1, Len(files) - 1)), files[Len(files)])

(***************************************************************************)
(* generateModelFromTableInfo: the artifact of a table.  The artifact is   *)
(* the rendered template; the model keeps its header lines as text and the *)
(* rest as the data the template prints (the struct name and the Go field  *)
(* names, which the template derives from the table and column names,      *)
(* are left out).                                                          *)
(***************************************************************************)
twoDigits(n) == Ch(Digits, (n \div 10) + 1) \o Ch(Digits, (n % 10) + 1)

\* time.Now().Format(time.RFC3339) for a clock that counts the seconds of
\* one minute.
formatRFC3339(t) == "2024-01-01T00:00:" \o twoDigits(t) \o "Z"

\* The flag that sees time.Time and misses *time.Time.
hasTimeNotOptional(columns) == \E i \in 1..Len(columns) : columns[i].GoType = "time.Time"

hasTime(columns) == \E i \in 1..Len(columns) : Contains(columns[i].GoType, "time.Time")

hasJSON(columns) == \E i \in 1..Len(columns) : columns[i].GoType = "json.RawMessage"

renderModel(tableInfo, timestamp) ==
    [header    |-> "// This file is auto-generated. DO NOT EDIT.\n// Generated on " \o timestamp,
     imports   |-> (IF hasTime(tableInfo.Columns) THEN {"time"} ELSE {})
                   \cup (IF hasJSON(tableInfo.Columns) THEN {"encoding/json"} ELSE {}),
     TableName |-> tableInfo.TableName,
     Columns   |-> [i \in 1..Len(tableInfo.Columns) |->
                       [Name   |-> tableInfo.Columns[i].Name,
                        GoType |-> tableInfo.Columns[i].GoType]]]

outputFile(tableName) == tableName \o ".go"

(***************************************************************************)
(* The statements the model feeds to the statement loop, as splitStatements *)
(* returns them (trimmed, with the semicolon that closed them).            *)
(***************************************************************************)
ScenarioA == "CREATE TABLE users (id SERIAL PRIMARY KEY, email VARCHAR(255) NOT NULL, bio TEXT);"

ScenarioB == "ALTER TABLE users ADD COLUMN age INT;"

ScenarioC == "ALTER TABLE users ALTER COLUMN age SET NOT NULL;"

ScenarioD == "ALTER TABLE users DROP COLUMN bio;"

AgeDropNotNull == "ALTER TABLE users ALTER COLUMN age DROP NOT NULL;"

AgeType == "ALTER TABLE users ALTER COLUMN age TYPE BIGINT;"

AddBio == "ALTER TABLE users ADD COLUMN bio VARCHAR(100) NOT NULL;"

AddChecksum == "ALTER TABLE users ADD COLUMN checksum TEXT;"

CreateOrders == "CREATE TABLE orders (\n  id BIGINT,\n  total NUMERIC(10, 2) NOT NULL,\n  PRIMARY KEY (id)\n);"

CreateOrdersKeyFirst == "CREATE TABLE IF NOT EXISTS orders (PRIMARY KEY (id), id BIGINT, total NUMERIC(10, 2) NOT NULL );"

CreateOrdersTwice == "CREATE TABLE orders (id BIGINT NOT NULL, note TEXT, id UUID );"

IdDropNotNull == "ALTER TABLE orders ALTER COLUMN id DROP NOT NULL;"

IdSetNotNull == "ALTER TABLE orders ALTER COLUMN id SET NOT NULL;"

DropTotal == "ALTER TABLE orders DROP COLUMN IF EXISTS total;"

AddRef == "ALTER TABLE orders ADD COLUMN ref UUID PRIMARY KEY;"

CreateIndex == "CREATE INDEX idx_users_email ON users (email);"

InsertUser == "INSERT INTO users (id, email) VALUES (1, 'a@b.c');"

CommentAlter == "COMMENT ON TABLE users IS 'see ALTER TABLE users DROP COLUMN email';"

DropUsers == "DROP TABLE users;"

RenameUsers == "ALTER TABLE users RENAME TO people;"

Statements ==
    {ScenarioA, ScenarioB, ScenarioC, ScenarioD, AgeDropNotNull, AgeType, AddBio,
     AddChecksum, CreateOrders, CreateOrdersKeyFirst, CreateOrdersTwice, IdDropNotNull,
     IdSetNotNull, DropTotal, AddRef, CreateIndex, InsertUser, CommentAlter, DropUsers, RenameUsers}

(***************************************************************************)
(* The migration directories of the model, each as filepath.Walk visits    *)
(* it: the root first, then its entries in lexical order.                  *)
(***************************************************************************)
Folder(path) == [path |-> path, isDir |-> TRUE, content |-> ""]

Entry(path, content) == [path |-> path, isDir |-> FALSE, content |-> content]

CreateMeta == "CREATE TABLE schema_migrations (version BIGINT NOT NULL, dirty BOOLEAN NOT NULL );"

DropAge == "ALTER TABLE users DROP COLUMN age;"

UsersDir ==
    <<Folder("sql"),
      Entry("sql/001_create_users.down.sql", DropUsers \o "\n"),
      Entry("sql/001_create_users.up.sql", "-- users\n" \o ScenarioA \o "\n"),
      Entry("sql/002_add_age.down.sql", DropAge \o "\n"),
      Entry("sql/002_add_age.up.sql", ScenarioB \o "\n" \o ScenarioC \o "\n"),
      Entry("sql/003_drop_bio.up.sql", ScenarioD)>>

OrdersDir ==
    <<Folder("sql"),
      Entry("sql/003_drop_total.up.sql", DropTotal \o "\n"),
      Entry("sql/10_add_ref.up.sql", AddRef \o "\n"),
      Entry("sql/2_create_orders.up.sql", "/* orders */\r\n" \o CreateOrders \o "\r\n"),
      Entry("sql/README.md", ScenarioA)>>

ShopDir ==
    <<Folder("sql"),
      Entry("sql/001_users.up.sql", ScenarioA \o "\n"),
      Entry("sql/002_orders.up.sql", CreateOrdersKeyFirst \o " -- keyed\n" \o DropTotal),
      Entry("sql/schema_migrations.up.sql", CreateMeta)>>

\* Tables with temporal and JSON columns that a later migration retypes,
\* drops and adds.
CreateEvents == "CREATE TABLE events (id INT NOT NULL, at TIMESTAMP NOT NULL, payload JSONB );"

CreateLogs == "CREATE TABLE logs (id INT NOT NULL, at TIMESTAMPTZ, body JSON );"

CreateTags == "CREATE TABLE tags (id INT NOT NULL, seen DATE );"

BodyType == "ALTER TABLE logs ALTER COLUMN body TYPE TEXT;"

DropSeen == "ALTER TABLE tags DROP COLUMN seen;"

AddMeta == "ALTER TABLE tags ADD COLUMN meta JSONB;"

EventsDir ==
    <<Folder("sql"),
      Entry("sql/001_create.up.sql", CreateEvents \o "\n" \o CreateLogs \o "\n" \o CreateTags),
      Entry("sql/002_alter.up.sql", BodyType \o "\n" \o DropSeen \o "\n" \o AddMeta \o "\n")>>

EmptyDir == <<Folder("sql")>>

Directories == {UsersDir, OrdersDir, ShopDir, EventsDir, EmptyDir}

(***************************************************************************)
(* The arguments the functions of the program are called with when they    *)
(* are studied one call at a time.                                         *)
(***************************************************************************)
TypeNames ==
    {"integer", "smallint", "int", "smallserial", "serial", "bigint", "bigserial",
     "numeric", "decimal", "real", "double", "double precision", "float", "float4",
     "float8", "boolean", "bool", "text", "character varying", "varchar", "char",
     "character", "citext", "uuid", "date", "timestamp", "timestamptz",
     "timestamp with time zone", "timestamp without time zone", "json", "jsonb",
     "point", "INT", "DOUBLE", "Timestamp", "JSONB"}

\* Statements one to a line, a statement of several lines, a last statement
\* without semicolon, and statements that share a line.
OnePerLine == ScenarioB \o "\n" \o ScenarioC \o "\n"

SeveralLines == CreateOrders \o "\n\n" \o DropTotal

DropBioOpen == "ALTER TABLE users DROP COLUMN bio"

TrailingFragment == ScenarioB \o "\n" \o DropBioOpen

SameLine == ScenarioB \o " " \o ScenarioC

AlterUsers == "ALTER TABLE users"

DropBioTail == "DROP COLUMN bio;"

AddAgeTail == "ADD COLUMN age INT;"

SharedLine == AlterUsers \o "\n" \o DropBioTail \o " " \o AlterUsers \o "\n" \o AddAgeTail

SemicolonContents == {OnePerLine, SeveralLines, TrailingFragment, SameLine, SharedLine}

\* Contents with comments; the character # stands inside comments only.
LineCommentFirst == "-- #users;#\n" \o ScenarioA

LineCommentInside ==
    AlterUsers \o " -- #; DROP COLUMN id;#\n" \o AddAgeTail \o " -- #\n"

BlockCommentLines ==
    "/* #ALTER TABLE users DROP COLUMN email;#\n#still; a comment#\n#*/" \o ScenarioB

BlockCommentStatement == ScenarioA \o "\n/*#" \o ScenarioD \o "#*/\n" \o ScenarioB

BlockCommentInside == "ALTER TABLE users /*#;#*/ ADD COLUMN age /*#*/ INT;"

LineCommentWithOpener == "-- # /* #\n" \o ScenarioB \o "\n-- #*/#"

CommentedOut ==
    ScenarioA \o "\n--#" \o ScenarioD \o "\n/* #" \o ScenarioB \o "\n#" \o ScenarioC \o "# */\n"

CommentContents ==
    {LineCommentFirst, LineCommentInside, BlockCommentLines, BlockCommentStatement,
     BlockCommentInside, LineCommentWithOpener, CommentedOut}

\* Migrations with columns of types the type switch does not know.
CreatePlaces ==
    "CREATE TABLE places (id INT NOT NULL, spot POINT NOT NULL, area POLYGON, name TEXT );"

AddCentre == "ALTER TABLE places ADD COLUMN centre POINT NOT NULL;"

AddHull == "ALTER TABLE places ADD COLUMN hull PATH;"

NameType == "ALTER TABLE places ALTER COLUMN name TYPE TSVECTOR;"

PlacesMigration ==
    CreatePlaces \o "\n" \o AddCentre \o "\n" \o AddHull \o "\n" \o NameType \o "\n"

\* CREATE TABLE statements whose closing parenthesis follows the last token
\* of the last column, and the same statements with a space before it.
TightNotNull == "CREATE TABLE t (a INT, b INT NOT NULL);"

SpacedNotNull == "CREATE TABLE t (a INT, b INT NOT NULL );"

TightKey == "CREATE TABLE t (a INT, b INT PRIMARY KEY);"

SpacedKey == "CREATE TABLE t (a INT, b INT PRIMARY KEY );"

TightType == "CREATE TABLE t (a TEXT NOT NULL, b INT);"

SpacedType == "CREATE TABLE t (a TEXT NOT NULL, b INT\n);"

LastColumnContents ==
    {TightNotNull, SpacedNotNull, TightKey, SpacedKey, TightType, SpacedType}

\* CREATE TABLE statements with an inline and with a table-level primary key.
InlineKey == "CREATE TABLE t (a INT PRIMARY KEY, b TEXT NOT NULL, c INT );"

CompositeKey == "CREATE TABLE t (a INT, b TEXT NULL, c INT, PRIMARY KEY (a, b) );"

KeyContents == {InlineKey, CompositeKey, SpacedKey}

\* Columns whose names start with the letters of a constraint keyword, next
\* to constraints, in CREATE TABLE and in ALTER TABLE ... ADD.
CreateCheckNames ==
    "CREATE TABLE t (id INT, checksum TEXT, unique_code TEXT, CHECK (id > 0), UNIQUE (id) );"

CreateKeyNames ==
    "CREATE TABLE t (id INT, primary_email TEXT, foreign_ref INT, PRIMARY KEY (id) );"

AddKeywordNames ==
    "CREATE TABLE t (id INT );\nALTER TABLE t ADD COLUMN checksum TEXT;\n"
        \o "ALTER TABLE t ADD primary_email TEXT;\nALTER TABLE t ADD UNIQUE (id);"

KeywordContents == {CreateCheckNames, CreateKeyNames, AddKeywordNames}

\* An ALTER TABLE statement with two ADD clauses.
SeveralClauses == "CREATE TABLE t (id INT );\nALTER TABLE t ADD COLUMN a INT, ADD COLUMN b TEXT;"

MigrationContents ==
    {PlacesMigration, CommentedOut, BlockCommentStatement, SameLine, OnePerLine}
        \cup LastColumnContents \cup KeyContents \cup KeywordContents \cup {SeveralClauses}

\* Column lists with commas inside parentheses, empty fragments and a
\* trailing comma.
TypeParameters == "id BIGINT, total NUMERIC(10, 2) NOT NULL, PRIMARY KEY (id, total), note TEXT"

EmptyFragments == "code VARCHAR(8), ref INT REFERENCES other (a, b), , note TEXT,"

NoSpaces == "a INT,b TEXT ,c DECIMAL(5,2)"

NamedConstraint == "id INT, CONSTRAINT uq UNIQUE (id, code), code TEXT NOT NULL"

AddShape == "age INT,"

ColumnLists == {TypeParameters, EmptyFragments, NoSpaces, NamedConstraint, AddShape}

Calls ==
    {[op |-> "mapPostgreSQLTypeToGo", pgType |-> t, isNullable |-> b] :
        t \in TypeNames, b \in BOOLEAN}
    \cup {[op |-> "splitStatements", content |-> c] :
            c \in SemicolonContents \cup CommentContents}
    \cup {[op |-> "processMigrationContent", content |-> c] : c \in MigrationContents}
    \cup {[op |-> "extractColumnDefinitions", columnsDef |-> c] : c \in ColumnLists}

Contents ==
    UNION {{d[i].content : i \in 1..Len(d)} : d \in Directories}
        \cup SemicolonContents \cup CommentContents \cup MigrationContents

\* splitStatements is a function of the file content alone: it is computed
\* once for each file of the model and looked up from then on.
splits == {<<c, splitStatements(c)>> : c \in Contents}

statementsOf(content) == (CHOOSE p \in splits : p[1] = content)[2]

\* statementEffect is a function of the statement alone: it is computed once
\* for each statement of the model and looked up from then on.
MemoStatements ==
    Statements \cup {CreateMeta, DropUsers, DropAge, CreateEvents, CreateLogs, CreateTags,
                      BodyType, DropSeen, AddMeta}

effects == {<<s, statementEffect(s)>> : s \in MemoStatements}

effectOf(statement) ==
    IF statement \in MemoStatements
    THEN (CHOOSE p \in effects : p[1] = statement)[2]
    ELSE statementEffect(statement)

processStatement(tbls, statement) == applyEffect(tbls, effectOf(statement))

\* The statement loop of processMigrationContent.
RECURSIVE applyStatements(_, _)
applyStatements(tbls, statements) ==
    IF statements = <<>> THEN tbls
    ELSE applyStatements(processStatement(tbls, Head(statements)), Tail(statements))

processMigrationContent(content, tbls) == applyStatements(tbls, statementsOf(content))

(***************************************************************************)
(* State.                                                                  *)
(***************************************************************************)
VARIABLES
    tables,          \* the schema store of the run: table name -> TableInfo
    stmt,            \* the statement the loop of processMigrationContent holds
    dir,             \* the migrations directory on disk, in walk order
    migrationFiles,  \* parseAllMigrations: the sorted files still to read
    pending,         \* processMigrationContent: the statements still to process
    output,          \* the output directory on disk: file name -> artifact
    remaining,       \* main: the tables the emission loop has not reached
    now,             \* the wall clock
    pc,              \* where the run stands
    run,             \* the number of the run
    file,            \* parseAllMigrations: the file the loop holds
    printed,         \* the lines the run has printed
    call,            \* a function of the program and its arguments
    result           \* what the function returned

vars ==
    <<tables, stmt, dir, migrationFiles, pending, output, remaining, now, pc, run, file,
      printed, call, result>>

EmptyStore == [t \in {} |-> [TableName |-> t, Columns |-> <<>>]]

NoOutput == [f \in {} |-> renderModel([TableName |-> f, Columns |-> <<>>], "")]

\* No function is under study in a run of the statement loop or of main.
NoCall == [op |-> "none"]

NoResult == [done |-> FALSE]

Returned(value) == [done |-> TRUE, value |-> value]

\* The clock of the model stops at MaxClock and a directory is generated
\* from at most MaxRuns times.
MaxClock == 2

MaxRuns == 2

(***************************************************************************)
(* Spec: the statement loop under every stream of statements.              *)
(***************************************************************************)
Init ==
    /\ tables = EmptyStore
    /\ stmt = ""
    /\ dir = <<>>
    /\ migrationFiles = <<>>
    /\ pending = <<>>
    /\ output = NoOutput
    /\ remaining = {}
    /\ now = 0
    /\ pc = "loop"
    /\ run = 1
    /\ file = ""
    /\ printed = <<>>
    /\ call = NoCall
    /\ result = NoResult

ProcessStatement(s) ==
    /\ pc = "loop"
    /\ stmt' = s
    /\ tables' = processStatement(tables, s)
    /\ UNCHANGED <<dir, migrationFiles, pending, output, remaining, now, pc, run, file, printed, call,
                   result>>

Next == \E s \in Statements : ProcessStatement(s)

Spec == Init /\ [][Next]_vars

(***************************************************************************)
(* SpecCall: one call of one function of the program on arguments of the   *)
(* catalog; processMigrationContent is called on an empty store.           *)
(***************************************************************************)
InitCall ==
    /\ tables = EmptyStore
    /\ stmt = ""
    /\ dir = <<>>
    /\ migrationFiles = <<>>
    /\ pending = <<>>
    /\ output = NoOutput
    /\ remaining = {}
    /\ now = 0
    /\ pc = "call"
    /\ run = 1
    /\ file = ""
    /\ printed = <<>>
    /\ call \in Calls
    /\ result = NoResult

Return(value) ==
    /\ pc = "call"
    /\ ~result.done
    /\ result' = Returned(value)
    /\ pc' = "returned"
    /\ UNCHANGED <<tables, stmt, dir, migrationFiles, pending, output, remaining, now, run, file,
                   printed, call>>

MapPostgreSQLTypeToGo ==
    /\ call.op = "mapPostgreSQLTypeToGo"
    /\ Return(mapPostgreSQLTypeToGo(call.pgType, call.isNullable))

SplitStatements ==
    /\ call.op = "splitStatements"
    /\ Return(statementsOf(call.content))

ProcessMigrationContent ==
    /\ call.op = "processMigrationContent"
    /\ Return(processMigrationContent(call.content, EmptyStore))

ExtractColumnDefinitions ==
    /\ call.op = "extractColumnDefinitions"
    /\ Return(extractColumnDefinitions(call.columnsDef))

NextCall ==
    \/ MapPostgreSQLTypeToGo
    \/ SplitStatements
    \/ ProcessMigrationContent
    \/ ExtractColumnDefinitions

SpecCall == InitCall /\ [][NextCall]_vars

(***************************************************************************)
(* SpecRun: whole runs of main over a migrations directory that stays as   *)
(* it is, while the clock goes on and the output directory is kept from    *)
(* one run to the next.                                                    *)
(***************************************************************************)
InitRun ==
    /\ tables = EmptyStore
    /\ stmt = ""
    /\ dir \in Directories
    /\ migrationFiles = <<>>
    /\ pending = <<>>
    /\ output = NoOutput
    /\ remaining = {}
    /\ now = 0
    /\ pc = "main"
    /\ run = 1
    /\ file = ""
    /\ printed = <<>>
    /\ call = NoCall
    /\ result = NoResult

\* os.MkdirAll of the output directory.
MkdirAll ==
    /\ pc = "main"
    /\ pc' = "walk"
    /\ UNCHANGED <<tables, stmt, dir, migrationFiles, pending, output, remaining, now, run, file, printed, call,
                   result>>

MkdirAllFails ==
    /\ pc = "main"
    /\ pc' = "fatal"
    /\ printed' = Append(printed, "Error: Failed to create output directory")
    /\ UNCHANGED <<tables, stmt, dir, migrationFiles, pending, output, remaining, now, run, file, call,
                 result>>

\* parseAllMigrations up to its loop: the walk and the sort.
Walk ==
    /\ pc = "walk"
    /\ migrationFiles' = sortByVersion(upFiles(dir))
    /\ pc' = "read"
    /\ UNCHANGED <<tables, stmt, dir, pending, output, remaining, now, run, file, printed, call,
                   result>>

WalkFails ==
    /\ pc = "walk"
    /\ pc' = "fatal"
    /\ printed' = Append(printed, "Error: Failed to parse migrations")
    /\ UNCHANGED <<tables, stmt, dir, migrationFiles, pending, output, remaining, now, run, file, call,
                 result>>

\* A read that fails, reports the error and lets main go on to the emission
\* loop with the store of the files read so far.
ReadFileFailsAndGoesOn ==
    /\ pc = "read"
    /\ pending = <<>>
    /\ migrationFiles # <<>>
    /\ pc' = "emit"
    /\ remaining' = DOMAIN tables
    /\ migrationFiles' = <<>>
    /\ printed' = Append(printed, "Error: Failed to parse migrations")
    /\ UNCHANGED <<tables, stmt, dir, pending, output, now, run, file, call, result>>

\* One turn of the loop over the files: os.ReadFile and splitStatements.
ReadFile ==
    /\ pc = "read"
    /\ pending = <<>>
    /\ migrationFiles # <<>>
    /\ pending' = statementsOf(Head(migrationFiles).content)
    /\ migrationFiles' = Tail(migrationFiles)
    /\ file' = Head(migrationFiles).path
    /\ UNCHANGED <<tables, stmt, dir, output, remaining, now, pc, run, printed, call, result>>

ReadFileFails ==
    /\ pc = "read"
    /\ pending = <<>>
    /\ migrationFiles # <<>>
    /\ pc' = "fatal"
    /\ printed' = Append(printed, "Error: Failed to parse migrations")
    /\ UNCHANGED <<tables, stmt, dir, migrationFiles, pending, output, remaining, now, run, file, call,
                 result>>

\* One turn of the statement loop of processMigrationContent.
ProcessPending ==
    /\ pc = "read"
    /\ pending # <<>>
    /\ stmt' = Head(pending)
    /\ tables' = processStatement(tables, Head(pending))
    /\ pending' = Tail(pending)
    /\ UNCHANGED <<dir, migrationFiles, output, remaining, now, pc, run, file, printed, call,
                   result>>

\* main enters the emission loop after any file, with files still to read.
ParsedEarly ==
    /\ pc = "read"
    /\ pending = <<>>
    /\ file # ""
    /\ remaining' = DOMAIN tables
    /\ pc' = "emit"
    /\ UNCHANGED <<tables, stmt, dir, migrationFiles, pending, output, now, run, file, printed,
                   call, result>>

\* parseAllMigrations returns the store and main enters the emission loop.
Parsed ==
    /\ pc = "read"
    /\ pending = <<>>
    /\ migrationFiles = <<>>
    /\ remaining' = DOMAIN tables
    /\ pc' = "emit"
    /\ UNCHANGED <<tables, stmt, dir, migrationFiles, pending, output, now, run, file, printed, call,
                   result>>

\* One turn of the emission loop, in whatever order the map gives.
SkipMigrationTable ==
    /\ pc = "emit"
    /\ "schema_migrations" \in remaining
    /\ remaining' = remaining \ {"schema_migrations"}
    /\ UNCHANGED <<tables, stmt, dir, migrationFiles, pending, output, now, pc, run, file, printed, call,
                   result>>

Generate(t) ==
    /\ pc = "emit"
    /\ t \in remaining
    /\ t # "schema_migrations"
    /\ output' = put(output, outputFile(t), renderModel(tables[t], formatRFC3339(now)))
    /\ remaining' = remaining \ {t}
    /\ printed' = Append(printed, "Generated model for table: " \o t)
    /\ UNCHANGED <<tables, stmt, dir, migrationFiles, pending, now, pc, run, file, call, result>>

\* The steps of generateModelFromTableInfo that can report an error and
\* return: executing the template, formatting the text, writing the file.
FailingSteps == {"execute template", "format code", "write model file"}

GenerateAborts(t) ==
    /\ pc = "emit"
    /\ t \in remaining
    /\ t # "schema_migrations"
    /\ pc' = "fatal"
    /\ printed' = Append(printed, "Error: Failed to write model file for " \o t)
    /\ UNCHANGED <<tables, stmt, dir, migrationFiles, pending, output, remaining, now, run, file,
                   call, result>>

GenerateFails(t) ==
    /\ pc = "emit"
    /\ t \in remaining
    /\ t # "schema_migrations"
    /\ remaining' = remaining \ {t}
    /\ \E step \in FailingSteps :
          printed' = Append(printed, "Error: Failed to " \o step \o " for " \o t)
    /\ UNCHANGED <<tables, stmt, dir, migrationFiles, pending, output, now, pc, run, file, call,
                   result>>

Completed ==
    /\ pc = "emit"
    /\ remaining = {}
    /\ pc' = "done"
    /\ printed' = Append(printed, "Model generation completed successfully.")
    /\ UNCHANGED <<tables, stmt, dir, migrationFiles, pending, output, remaining, now, run, file, call,
                 result>>

Tick ==
    /\ pc # "loop"
    /\ now < MaxClock
    /\ now' = now + 1
    /\ UNCHANGED <<tables, stmt, dir, migrationFiles, pending, output, remaining, pc, run, file, printed, call,
                   result>>

\* The generator is started again: a new process over the same disk.
Rerun ==
    /\ pc \in {"done", "fatal"}
    /\ run < MaxRuns
    /\ run' = run + 1
    /\ pc' = "main"
    /\ tables' = EmptyStore
    /\ stmt' = ""
    /\ migrationFiles' = <<>>
    /\ pending' = <<>>
    /\ remaining' = {}
    /\ file' = ""
    /\ printed' = <<>>
    /\ UNCHANGED <<dir, output, now, call, result>>

NextRun ==
    \/ MkdirAll
    \/ MkdirAllFails
    \/ Walk
    \/ WalkFails
    \/ ReadFile
    \/ ReadFileFails
    \/ ProcessPending
    \/ Parsed
    \/ SkipMigrationTable
    \/ \E t \in remaining : Generate(t)
    \/ \E t \in remaining : GenerateFails(t)
    \/ Completed
    \/ Tick
    \/ Rerun

SpecRun == InitRun /\ [][NextRun]_vars

(***************************************************************************)
(* How the statements of the model read as SQL: the table and the column   *)
(* each one names and what it declares.  The properties below judge the    *)
(* store against this reading, not against the program's own parse.        *)
(***************************************************************************)
CreateStatements ==
    {[text |-> ScenarioA, table |-> "users", columns |-> <<"id", "email", "bio">>],
     [text |-> CreateOrders, table |-> "orders", columns |-> <<"id", "total">>],
     [text |-> CreateOrdersKeyFirst, table |-> "orders", columns |-> <<"id", "total">>],
     [text |-> CreateOrdersTwice, table |-> "orders", columns |-> <<"id", "note", "id">>]}

AddStatements ==
    {[text |-> ScenarioB, table |-> "users", column |-> "age", nullable |-> TRUE],
     [text |-> AddBio, table |-> "users", column |-> "bio", nullable |-> FALSE],
     [text |-> AddChecksum, table |-> "users", column |-> "checksum", nullable |-> TRUE],
     [text |-> AddRef, table |-> "orders", column |-> "ref", nullable |-> FALSE]}

NullabilityStatements ==
    {[text |-> ScenarioC, table |-> "users", column |-> "age", nullable |-> FALSE],
     [text |-> AgeDropNotNull, table |-> "users", column |-> "age", nullable |-> TRUE],
     [text |-> IdSetNotNull, table |-> "orders", column |-> "id", nullable |-> FALSE],
     [text |-> IdDropNotNull, table |-> "orders", column |-> "id", nullable |-> TRUE]}

AlterColumnStatements ==
    {[text |-> a.text, table |-> a.table, column |-> a.column] : a \in NullabilityStatements}
    \cup {[text |-> AgeType, table |-> "users", column |-> "age"]}

DropStatements ==
    {[text |-> ScenarioD, table |-> "users", column |-> "bio"],
     [text |-> DropTotal, table |-> "orders", column |-> "total"]}

AlterStatements ==
    {[text |-> a.text, table |-> a.table] : a \in AddStatements}
    \cup {[text |-> a.text, table |-> a.table] : a \in AlterColumnStatements}
    \cup {[text |-> a.text, table |-> a.table] : a \in DropStatements}

Names(columns) == [i \in 1..Len(columns) |-> columns[i].Name]

Range(seq) == {seq[i] : i \in 1..Len(seq)}

\* Whether a can be had from b by deleting elements.
RECURSIVE IsSubseq(_, _)
IsSubseq(a, b) ==
    IF a = <<>> THEN TRUE
    ELSE IF b = <<>> THEN FALSE
    ELSE IF Head(a) = Head(b) THEN IsSubseq(Tail(a), Tail(b))
    ELSE IsSubseq(a, Tail(b))

\* The column of a table that a statement naming it by name locates.
Located(columns, name) ==
    columns[CHOOSE i \in 1..Len(columns) :
                /\ columns[i].Name = name
                /\ \A j \in 1..(i - 1) : columns[j].Name # name]

OtherTablesUnchanged(table) ==
    /\ DOMAIN tables' = DOMAIN tables
    /\ \A t \in DOMAIN tables : t # table => tables'[t] = tables[t]

(***************************************************************************)
(* C1: after any sequence of statements, every column of the store whose   *)
(* primary-key flag is set is not nullable; ALTER COLUMN ... DROP NOT NULL *)
(* on a primary-key column does not make it nullable.                      *)
(***************************************************************************)
C1_PrimaryKeyNeverNullable ==
    \A t \in DOMAIN tables :
        \A i \in 1..Len(tables[t].Columns) :
            tables[t].Columns[i].IsPrimaryKey => ~tables[t].Columns[i].IsNullable

(***************************************************************************)
(* C11: a statement whose leading keywords are neither CREATE TABLE nor    *)
(* ALTER TABLE leaves the schema store as it is, whatever text it holds    *)
(* further inside.                                                         *)
(***************************************************************************)
LeadingKeywords(s) ==
    LET words == Fields(s)
    IN  IF Len(words) < 2 THEN <<>> ELSE <<ToUpper(words[1]), ToUpper(words[2])>>

OtherStatements ==
    {s \in Statements : LeadingKeywords(s) \notin {<<"CREATE", "TABLE">>, <<"ALTER", "TABLE">>}}

C11_LeadingKeywordsDecide ==
    [][stmt' \in OtherStatements => tables' = tables]_vars

(***************************************************************************)
(* C2: over an unchanged set of migration files (dir never changes), a     *)
(* later run leaves every artifact of the output directory byte for byte   *)
(* as the earlier run wrote it: no step replaces the content of an         *)
(* existing artifact by a different content, whatever the clock shows.     *)
(***************************************************************************)
C2_RerunByteIdentical ==
    [][\A f \in DOMAIN output : f \in DOMAIN output' /\ output'[f] = output[f]]_vars

(***************************************************************************)
(* C3: on an empty store, Scenario A's CREATE TABLE yields the table users *)
(* with exactly the columns id (int, not nullable, primary key), email     *)
(* (string, not nullable, not primary key) and bio (optional string,       *)
(* nullable), in this order.                                               *)
(***************************************************************************)
C3_ScenarioA ==
    [][(tables = EmptyStore /\ stmt' = ScenarioA) =>
          /\ DOMAIN tables' = {"users"}
          /\ LET columns == tables'["users"].Columns
             IN  /\ Names(columns) = <<"id", "email", "bio">>
                 /\ columns[1].GoType = "int"
                 /\ ~columns[1].IsNullable
                 /\ columns[1].IsPrimaryKey
                 /\ columns[2].GoType = "string"
                 /\ ~columns[2].IsNullable
                 /\ ~columns[2].IsPrimaryKey
                 /\ columns[3].GoType = "*string"
                 /\ columns[3].IsNullable]_vars

(***************************************************************************)
(* C4: the columns of a table are in the order in which the surviving      *)
(* columns were declared by CREATE TABLE or added by ALTER ... ADD.  A     *)
(* CREATE TABLE gives the columns in their declared order wherever its     *)
(* table-level constraints stand; any other statement keeps the surviving  *)
(* columns in their order and puts every new column (a re-added one too)   *)
(* after all of them.                                                      *)
(***************************************************************************)
C4_ColumnOrder ==
    [][\A t \in DOMAIN tables' :
          LET new     == Names(tables'[t].Columns)
              creates == {c \in CreateStatements : c.text = stmt' /\ c.table = t}
          IN  IF creates # {}
              THEN \A c \in creates : IsSubseq(new, c.columns)
              ELSE /\ t \in DOMAIN tables
                   /\ LET old == Names(tables[t].Columns)
                      IN  \E k \in 0..Len(new) :
                              /\ IsSubseq(SubSeq(new, 1, k), old)
                              /\ \A i \in (k + 1)..Len(new) : new[i] \notin Range(old)]_vars

\* Witness of C4: bio was dropped and added again after age was added.
C4_Witness ==
    /\ "users" \in DOMAIN tables
    /\ Names(tables["users"].Columns) = <<"id", "email", "age", "bio">>

(***************************************************************************)
(* C5: right after ALTER COLUMN c SET NOT NULL (DROP NOT NULL) on a column *)
(* that exists, the column the statement locates is not nullable           *)
(* (nullable), and its derived type is the one of its raw type at that     *)
(* nullability, whatever nullability the column had or was declared with.  *)
(***************************************************************************)
C5_LastNullabilityWins ==
    \A a \in NullabilityStatements :
        (/\ stmt = a.text
         /\ a.table \in DOMAIN tables
         /\ columnExists(tables[a.table].Columns, a.column))
        => LET col == Located(tables[a.table].Columns, a.column)
           IN  /\ col.IsNullable = a.nullable
               /\ col.GoType = mapPostgreSQLTypeToGo(col.Type, a.nullable)

\* Witness of C5: age was added nullable and SET NOT NULL came last.
C5_Witness ==
    /\ stmt = ScenarioC
    /\ "users" \in DOMAIN tables
    /\ columnExists(tables["users"].Columns, "age")
    /\ ~Located(tables["users"].Columns, "age").IsNullable
    /\ Located(tables["users"].Columns, "age").GoType = "int"

(***************************************************************************)
(* C6: ALTER TABLE t ADD COLUMN c <type> on a defined table t without a    *)
(* column c appends c as the last column, leaves the existing columns as   *)
(* they are and makes c nullable unless the clause says NOT NULL or        *)
(* PRIMARY KEY.                                                            *)
(***************************************************************************)
C6_AddColumnAppends ==
    [][\A a \in AddStatements :
          (/\ stmt' = a.text
           /\ a.table \in DOMAIN tables
           /\ ~columnExists(tables[a.table].Columns, a.column))
          => LET old == tables[a.table].Columns
                 new == tables'[a.table].Columns
             IN  /\ Len(new) = Len(old) + 1
                 /\ SubSeq(new, 1, Len(old)) = old
                 /\ new[Len(new)].Name = a.column
                 /\ new[Len(new)].IsNullable = a.nullable
                 /\ new[Len(new)].GoType =
                        mapPostgreSQLTypeToGo(new[Len(new)].Type, a.nullable)]_vars

(***************************************************************************)
(* C7: an ALTER COLUMN statement (TYPE, SET NOT NULL, DROP NOT NULL) that  *)
(* names column c of table t changes nothing but column c of t: the other  *)
(* columns of t, the column order of t and the other tables stay as they   *)
(* are; ALTER COLUMN age SET NOT NULL makes age a non-nullable integer.    *)
(***************************************************************************)
C7_AlterColumnFrame ==
    [][\A a \in AlterColumnStatements :
          stmt' = a.text =>
             /\ OtherTablesUnchanged(a.table)
             /\ a.table \in DOMAIN tables =>
                  LET old == tables[a.table].Columns
                      new == tables'[a.table].Columns
                  IN  /\ tables'[a.table].TableName = tables[a.table].TableName
                      /\ Names(new) = Names(old)
                      /\ \A i \in 1..Len(old) : old[i].Name # a.column => new[i] = old[i]
                      /\ \A i \in 1..Len(old) : new[i].IsPrimaryKey = old[i].IsPrimaryKey
                      /\ (a.text = ScenarioC /\ columnExists(old, "age")) =>
                            /\ ~Located(new, "age").IsNullable
                            /\ Located(new, "age").GoType =
                                  mapPostgreSQLTypeToGo(Located(old, "age").Type, FALSE)]_vars

\* Witness of C7: Scenario C was applied to the four columns of Scenario B
\* while another table was in the store.
C7_Witness ==
    /\ stmt = ScenarioC
    /\ DOMAIN tables = {"users", "orders"}
    /\ Names(tables["users"].Columns) = <<"id", "email", "bio", "age">>
    /\ ~tables["users"].Columns[4].IsNullable
    /\ tables["users"].Columns[4].GoType = "int"
    /\ tables["users"].Columns[3].IsNullable

(***************************************************************************)
(* C8: ALTER TABLE t DROP COLUMN c on a defined table t removes exactly    *)
(* the columns named c: c is absent afterwards, every other column of t is *)
(* there with its attributes and in the same relative order, and the other *)
(* tables are unchanged.                                                   *)
(***************************************************************************)
C8_DropColumnFrame ==
    [][\A d \in DropStatements :
          (stmt' = d.text /\ d.table \in DOMAIN tables) =>
             /\ OtherTablesUnchanged(d.table)
             /\ tables'[d.table].TableName = tables[d.table].TableName
             /\ ~columnExists(tables'[d.table].Columns, d.column)
             /\ LET old  == tables[d.table].Columns
                    kept == {i \in 1..Len(old) : old[i].Name # d.column}
                    new  == tables'[d.table].Columns
                IN  /\ Len(new) = Cardinality(kept)
                    /\ \A i \in kept :
                          new[Cardinality({j \in kept : j <= i})] = old[i]]_vars

\* Witness of C8: bio was dropped from [id, email, bio, age].
C8_Witness ==
    /\ stmt = ScenarioD
    /\ "users" \in DOMAIN tables
    /\ Names(tables["users"].Columns) = <<"id", "email", "age">>

(***************************************************************************)
(* C9: no table of the store ever holds two columns with the same name,    *)
(* also after a CREATE TABLE body or an ADD clause that lists a name       *)
(* twice.                                                                  *)
(***************************************************************************)
C9_UniqueColumnNames ==
    \A t \in DOMAIN tables :
        \A i, j \in 1..Len(tables[t].Columns) :
            tables[t].Columns[i].Name = tables[t].Columns[j].Name => i = j

(***************************************************************************)
(* C10: an ALTER TABLE ADD / ALTER COLUMN / DROP COLUMN statement that     *)
(* names a table that is not in the store leaves the whole store as it is. *)
(***************************************************************************)
C10_UnknownTableIgnored ==
    [][\A a \in AlterStatements :
          (stmt' = a.text /\ a.table \notin DOMAIN tables) => tables' = tables]_vars

\* Witness of C10: an ALTER on users was processed while only orders was defined.
C10_Witness ==
    /\ stmt \in {a.text : a \in {b \in AlterStatements : b.table = "users"}}
    /\ DOMAIN tables = {"orders"}

(***************************************************************************)
(* C12: the migration files are applied in non-decreasing order of their   *)
(* version, the number before the first underscore of the file name (2     *)
(* before 10, 001 is 1, 0 when the prefix is no integer): the files still  *)
(* to read are in that order and none of them has a lower version than the *)
(* file whose statements are being applied.                                *)
(***************************************************************************)
\* The versions of the migration files of the model, read off their names.
FileVersions ==
    {<<"sql/001_create_users.up.sql", 1>>, <<"sql/002_add_age.up.sql", 2>>,
     <<"sql/003_drop_bio.up.sql", 3>>, <<"sql/003_drop_total.up.sql", 3>>,
     <<"sql/10_add_ref.up.sql", 10>>, <<"sql/2_create_orders.up.sql", 2>>,
     <<"sql/001_users.up.sql", 1>>, <<"sql/002_orders.up.sql", 2>>,
     <<"sql/schema_migrations.up.sql", 0>>, <<"sql/001_create.up.sql", 1>>,
     <<"sql/002_alter.up.sql", 2>>}

VersionOf(path) == (CHOOSE v \in FileVersions : v[1] = path)[2]

C12_VersionOrder ==
    /\ \A i, j \in 1..Len(migrationFiles) :
          i < j => VersionOf(migrationFiles[i].path) <= VersionOf(migrationFiles[j].path)
    /\ \A i \in 1..Len(migrationFiles) :
          file # "" => VersionOf(file) <= VersionOf(migrationFiles[i].path)
    /\ pending # <<>> => file # ""

\* Witness of C12: the statement of version 10 is applied to the table that
\* version 2 created and version 3 changed, though the walk met 10 before 2.
C12_Witness ==
    /\ dir = OrdersDir
    /\ file = "sql/10_add_ref.up.sql"
    /\ stmt = AddRef
    /\ Names(tables["orders"].Columns) = <<"id", "ref">>

(***************************************************************************)
(* C13: only the files whose name ends in .up.sql contribute: every        *)
(* statement that is applied, and so every change of the store within a    *)
(* run, comes from such a file of the directory.                           *)
(***************************************************************************)
UpStatements ==
    UNION {Range(statementsOf(dir[i].content)) :
             i \in {k \in 1..Len(dir) : ~dir[k].isDir /\ HasSuffix(dir[k].path, ".up.sql")}}

C13_OnlyUpFiles ==
    [][/\ stmt' # stmt => (stmt' = "" \/ stmt' \in UpStatements)
       /\ tables' # tables => (tables' = EmptyStore \/ stmt' \in UpStatements)]_vars

\* Witness of C13: a run over the directory with the README that holds a
\* CREATE TABLE users has ended and the store holds the table orders only.
C13_Witness ==
    /\ dir = OrdersDir
    /\ pc = "done"
    /\ DOMAIN tables = {"orders"}

(***************************************************************************)
(* C14: mapPostgreSQLTypeToGo returns a Go type for every type name, and   *)
(* for the names of the table below the Go type of the table, as a pointer *)
(* exactly when the column is nullable, json.RawMessage never as a pointer.*)
(***************************************************************************)
GoTypes ==
    {"int", "*int", "int64", "*int64", "float64", "*float64", "bool", "*bool", "string",
     "*string", "time.Time", "*time.Time", "json.RawMessage"}

MappedNames ==
    {"integer", "smallint", "serial", "bigint", "bigserial", "numeric", "real", "double",
     "float", "boolean", "text", "varchar", "char", "citext", "uuid", "date", "timestamp",
     "timestamptz", "timestamp with time zone", "timestamp without time zone", "json",
     "jsonb"}

MappedGoType(name) ==
    CASE name \in {"integer", "smallint", "serial"} -> "int"
      [] name \in {"bigint", "bigserial"} -> "int64"
      [] name \in {"numeric", "real", "double", "float"} -> "float64"
      [] name = "boolean" -> "bool"
      [] name \in {"text", "varchar", "char", "citext", "uuid"} -> "string"
      [] name \in {"date", "timestamp", "timestamptz", "timestamp with time zone",
                   "timestamp without time zone"} -> "time.Time"
      [] name \in {"json", "jsonb"} -> "json.RawMessage"

OptionalWhen(nullable, goType) ==
    IF nullable /\ goType # "json.RawMessage" THEN "*" \o goType ELSE goType

C14_TypeMapping ==
    (call.op = "mapPostgreSQLTypeToGo" /\ result.done) =>
        /\ result.value \in GoTypes
        /\ ToLower(call.pgType) \in MappedNames =>
              result.value = OptionalWhen(call.isNullable, MappedGoType(ToLower(call.pgType)))

(***************************************************************************)
(* C15: a column of a type the type switch does not know is added to its   *)
(* table like any other column, with Go type string when it is not         *)
(* nullable and *string when it is, and the artifact of the table carries  *)
(* it with that type.                                                      *)
(***************************************************************************)
UnknownTypes == {"point", "polygon", "path", "tsvector"}

Derived(columns) ==
    [i \in 1..Len(columns) |-> <<columns[i].Name, columns[i].IsNullable, columns[i].GoType>>]

C15_UnknownType ==
    (call.op = "processMigrationContent" /\ result.done) =>
        /\ \A t \in DOMAIN result.value :
              \A i \in 1..Len(result.value[t].Columns) :
                 LET c == result.value[t].Columns[i]
                 IN  ToLower(c.Type) \in UnknownTypes =>
                        c.GoType = IF c.IsNullable THEN "*string" ELSE "string"
        /\ call.content = PlacesMigration =>
              /\ DOMAIN result.value = {"places"}
              /\ Derived(result.value["places"].Columns)
                    = << <<"id", FALSE, "int">>, <<"spot", FALSE, "string">>,
                         <<"area", TRUE, "*string">>, <<"name", TRUE, "*string">>,
                         <<"centre", FALSE, "string">>, <<"hull", TRUE, "*string">> >>
              /\ LET model == renderModel(result.value["places"], formatRFC3339(0))
                 IN  /\ model.Columns[2] = [Name |-> "spot", GoType |-> "string"]
                     /\ model.Columns[6] = [Name |-> "hull", GoType |-> "*string"]

\* Witness of C15: the migration of the table places has been processed and
\* left the column spot of type point in the table.
C15_Witness ==
    /\ result.done
    /\ call.op = "processMigrationContent"
    /\ call.content = PlacesMigration
    /\ \E i \in 1..Len(result.value["places"].Columns) :
          /\ result.value["places"].Columns[i].Name = "spot"
          /\ ToLower(result.value["places"].Columns[i].Type) = "point"

(***************************************************************************)
(* C18: splitStatements closes a statement at every semicolon outside      *)
(* comments: it returns the statements in source order and the trailing    *)
(* fragment, also for statements that share a line.                        *)
(***************************************************************************)
SemicolonStatements(content) ==
    CASE content = OnePerLine -> <<ScenarioB, ScenarioC>>
      [] content = SeveralLines -> <<CreateOrders, DropTotal>>
      [] content = TrailingFragment -> <<ScenarioB, DropBioOpen>>
      [] content = SameLine -> <<ScenarioB, ScenarioC>>
      [] content = SharedLine ->
            <<AlterUsers \o "\n" \o DropBioTail, AlterUsers \o "\n" \o AddAgeTail>>

C18_EverySemicolonSplits ==
    (call.op = "splitStatements" /\ result.done /\ call.content \in SemicolonContents) =>
        result.value = SemicolonStatements(call.content)

(***************************************************************************)
(* C19: no character of a comment is in a statement splitStatements        *)
(* returns, a semicolon in a comment closes no statement, a line comment   *)
(* ends with its line, and text that is commented out leaves the store as  *)
(* it is.                                                                  *)
(***************************************************************************)
CleanStatements(content) ==
    CASE content = LineCommentFirst -> <<ScenarioA>>
      [] content = LineCommentInside -> <<AlterUsers \o " \n" \o AddAgeTail>>
      [] content = BlockCommentLines -> <<ScenarioB>>
      [] content = BlockCommentStatement -> <<ScenarioA, ScenarioB>>
      [] content = BlockCommentInside -> <<"ALTER TABLE users  ADD COLUMN age  INT;">>
      [] content = LineCommentWithOpener -> <<ScenarioB>>
      [] content = CommentedOut -> <<ScenarioA>>

C19_CommentsRemoved ==
    /\ (call.op = "splitStatements" /\ result.done) =>
          /\ \A i \in 1..Len(result.value) : ~Contains(result.value[i], "#")
          /\ call.content \in CommentContents =>
                result.value = CleanStatements(call.content)
    /\ (call.op = "processMigrationContent" /\ result.done
            /\ call.content \in CommentContents) =>
          result.value = applyStatements(EmptyStore, CleanStatements(call.content))

\* Witness of C19: the content with one statement and three statements in
\* comments has been split and has been processed.
C19_Witness ==
    /\ result.done
    /\ call.op \in {"splitStatements", "processMigrationContent"}
    /\ call.content = CommentedOut
    /\ \/ call.op = "splitStatements" /\ result.value = <<ScenarioA>>
       \/ /\ call.op = "processMigrationContent"
          /\ Names(result.value["users"].Columns) = <<"id", "email", "bio">>

(***************************************************************************)
(* C20: the last column of a CREATE TABLE statement is read the same way   *)
(* whether the closing parenthesis of the table follows its last token at  *)
(* once or after a space; in CREATE TABLE t (a INT, b INT NOT NULL); the   *)
(* column b is an int that is not nullable.                                *)
(***************************************************************************)
Spaced(content) ==
    CASE content = TightNotNull -> SpacedNotNull
      [] content = TightKey -> SpacedKey
      [] content = TightType -> SpacedType
      [] OTHER -> content

C20_LastColumn ==
    (call.op = "processMigrationContent" /\ result.done
        /\ call.content \in LastColumnContents) =>
        /\ Derived(result.value["t"].Columns)
              = Derived(processMigrationContent(Spaced(call.content), EmptyStore)["t"].Columns)
        /\ call.content = TightNotNull =>
              Derived(result.value["t"].Columns)[2] = <<"b", FALSE, "int">>

(***************************************************************************)
(* C16: a table whose generation fails gets no artifact and stops nothing: *)
(* the emission loop goes on to the end of the run, which reports success; *)
(* by then every table but schema_migrations has either its artifact,      *)
(* written in this run from the store, or its own error line.              *)
(***************************************************************************)
Last(lines) == lines[Len(lines)]

Failed(lines, t) ==
    \E i \in 1..Len(lines) : HasPrefix(lines[i], "Error: Failed to ") /\ HasSuffix(lines[i], " for " \o t)

Generated(lines, t) == \E i \in 1..Len(lines) : lines[i] = "Generated model for table: " \o t

Artifact(out, tbls, t) ==
    /\ outputFile(t) \in DOMAIN out
    /\ out[outputFile(t)].TableName = t
    /\ out[outputFile(t)].Columns
          = [i \in 1..Len(tbls[t].Columns) |->
                [Name |-> tbls[t].Columns[i].Name, GoType |-> tbls[t].Columns[i].GoType]]

C16_TableFailureIsLocal ==
    [][pc = "emit" =>
          /\ pc' \in {"emit", "done"}
          /\ (printed' # printed /\ HasPrefix(Last(printed'), "Error: Failed to ")) =>
                output' = output
          /\ pc' = "done" =>
                /\ Last(printed') = "Model generation completed successfully."
                /\ \A t \in DOMAIN tables' \ {"schema_migrations"} :
                      /\ Failed(printed', t) # Generated(printed', t)
                      /\ Generated(printed', t) => Artifact(output', tables', t)
                      /\ (Failed(printed', t) /\ run' = 1) => outputFile(t) \notin DOMAIN output']_vars

\* Witness of C16: a first run over the shop has ended with success after
\* the table orders failed and the table users got its artifact.
C16_Witness ==
    /\ dir = ShopDir
    /\ run = 1
    /\ pc = "done"
    /\ Failed(printed, "orders")
    /\ Generated(printed, "users")
    /\ DOMAIN output = {"users.go"}
    /\ Last(printed) = "Model generation completed successfully."

(***************************************************************************)
(* C17: a run whose walk or whose read of a file fails is fatal: it stops  *)
(* where it is, writes no artifact (none is written before the emission    *)
(* loop either) and reports neither a generated model nor success,         *)
(* whatever was read and parsed before.                                    *)
(***************************************************************************)
ParseFailed(lines) == \E i \in 1..Len(lines) : lines[i] = "Error: Failed to parse migrations"

Reported(lines) ==
    \E i \in 1..Len(lines) :
        \/ lines[i] = "Model generation completed successfully."
        \/ HasPrefix(lines[i], "Generated model")

C17_ParseFailureIsFatal ==
    [][/\ pc \in {"main", "walk", "read", "fatal"} => output' = output
       /\ ParseFailed(printed') =>
             /\ pc' = "fatal"
             /\ ~Reported(printed')
             /\ run' = 1 => output' = NoOutput
       /\ (pc = "fatal" /\ run' = run) =>
             /\ pc' = "fatal"
             /\ printed' = printed
             /\ tables' = tables]_vars

\* Witness of C17: the read of the second file of the users directory has
\* failed after the first file was read and its table created.
C17_Witness ==
    /\ dir = UsersDir
    /\ pc = "fatal"
    /\ ParseFailed(printed)
    /\ file = "sql/001_create_users.up.sql"
    /\ "users" \in DOMAIN tables
    /\ output = NoOutput

(***************************************************************************)
(* C21: after a CREATE TABLE statement a column is flagged primary key and *)
(* is not nullable when it carries PRIMARY KEY inline or is listed in the  *)
(* table's PRIMARY KEY (...) constraint, and is not flagged otherwise.     *)
(***************************************************************************)
KeyColumns(content) ==
    CASE content = InlineKey -> {"a"}
      [] content = CompositeKey -> {"a", "b"}
      [] content = SpacedKey -> {"b"}

C21_PrimaryKeyFlag ==
    (call.op = "processMigrationContent" /\ result.done /\ call.content \in KeyContents) =>
        \A i \in 1..Len(result.value["t"].Columns) :
            LET c == result.value["t"].Columns[i]
            IN  /\ c.IsPrimaryKey = (c.Name \in KeyColumns(call.content))
                /\ c.Name \in KeyColumns(call.content) => ~c.IsNullable

(***************************************************************************)
(* C22: a fragment is left out of the columns exactly when it starts with  *)
(* one of the keywords CONSTRAINT, PRIMARY KEY, FOREIGN KEY, UNIQUE, CHECK;*)
(* a column whose name only starts with the letters of a keyword is a      *)
(* column, in CREATE TABLE and in ALTER TABLE ... ADD.                     *)
(***************************************************************************)
DeclaredNames(content) ==
    CASE content = CreateCheckNames -> <<"id", "checksum", "unique_code">>
      [] content = CreateKeyNames -> <<"id", "primary_email", "foreign_ref">>
      [] content = AddKeywordNames -> <<"id", "checksum", "primary_email">>

C22_KeywordPrefixedNames ==
    (call.op = "processMigrationContent" /\ result.done
        /\ call.content \in KeywordContents) =>
        Names(result.value["t"].Columns) = DeclaredNames(call.content)

(***************************************************************************)
(* C23: extractColumnDefinitions splits its input at the commas outside    *)
(* parentheses only and keeps the order: the columns it returns are the    *)
(* declared ones in declared order, a comma inside parentheses starts no   *)
(* fragment and an empty fragment gives no column.                         *)
(***************************************************************************)
DeclaredColumns(columnsDef) ==
    CASE columnsDef = TypeParameters ->
            << <<"id", "bigint", TRUE>>, <<"total", "numeric", FALSE>>,
               <<"note", "text", TRUE>> >>
      [] columnsDef = EmptyFragments ->
            << <<"code", "varchar", TRUE>>, <<"ref", "int", TRUE>>, <<"note", "text", TRUE>> >>
      [] columnsDef = NoSpaces ->
            << <<"a", "int", TRUE>>, <<"b", "text", TRUE>>, <<"c", "decimal", TRUE>> >>
      [] columnsDef = NamedConstraint -> << <<"id", "int", TRUE>>, <<"code", "text", FALSE>> >>
      [] columnsDef = AddShape -> << <<"age", "int", TRUE>> >>

C23_SplitAtOuterCommas ==
    (call.op = "extractColumnDefinitions" /\ result.done) =>
        [i \in 1..Len(result.value) |->
            <<result.value[i].Name, result.value[i].Type, result.value[i].IsNullable>>]
          = DeclaredColumns(call.columnsDef)

\* Witness of C23: the list with NUMERIC(10, 2) and PRIMARY KEY (id, total)
\* has been split into its three columns.
C23_Witness ==
    /\ result.done
    /\ call.op = "extractColumnDefinitions"
    /\ call.columnsDef = TypeParameters
    /\ Len(result.value) = 3

(***************************************************************************)
(* C24: in every state of the store the derived type of every column is    *)
(* the type mapper applied to the column's raw type and nullability, after *)
(* CREATE TABLE, ADD COLUMN and each ALTER COLUMN action.                  *)
(***************************************************************************)
C24_DerivedTypeInStep ==
    \A t \in DOMAIN tables :
        \A i \in 1..Len(tables[t].Columns) :
            LET c == tables[t].Columns[i]
            IN  c.GoType = mapPostgreSQLTypeToGo(c.Type, c.IsNullable)

\* Witness of C24: the column age, added nullable, was set not null and then
\* retyped to BIGINT.
C24_Witness ==
    /\ stmt = AgeType
    /\ "users" \in DOMAIN tables
    /\ columnExists(tables["users"].Columns, "age")
    /\ Located(tables["users"].Columns, "age").Type = "BIGINT"
    /\ ~Located(tables["users"].Columns, "age").IsNullable
    /\ Located(tables["users"].Columns, "age").GoType = "int64"

(***************************************************************************)
(* C25: ALTER TABLE t ADD COLUMN c for a column c that t already has       *)
(* leaves the store as it is, whatever type and nullability the clause     *)
(* declares; the same ADD COLUMN statement applied a second time changes   *)
(* nothing.                                                                *)
(***************************************************************************)
C25_AddExistingColumn ==
    [][\A a \in AddStatements :
          stmt' = a.text =>
             /\ (/\ a.table \in DOMAIN tables
                 /\ a.column \in Range(Names(tables[a.table].Columns))) => tables' = tables
             /\ processStatement(tables', a.text) = tables']_vars

\* Witness of C25: ADD COLUMN bio VARCHAR(100) NOT NULL was applied to the
\* table whose column bio is nullable, and bio is nullable still.
C25_Witness ==
    /\ stmt = AddBio
    /\ "users" \in DOMAIN tables
    /\ Names(tables["users"].Columns) = <<"id", "email", "bio">>
    /\ tables["users"].Columns[3].IsNullable
    /\ tables["users"].Columns[3].GoType = "*string"

(***************************************************************************)
(* C26: an artifact is written only when every statement of every          *)
(* migration file has been applied, the store does not change from the     *)
(* first artifact on, and each artifact holds the columns of its table's   *)
(* final schema.                                                           *)
(***************************************************************************)
\* The final schema of each table of each directory, read off its files.
Col(name, goType) == [Name |-> name, GoType |-> goType]

FinalSchemas ==
    {<<UsersDir, "users", <<Col("id", "int"), Col("email", "string"), Col("age", "int")>> >>,
     <<OrdersDir, "orders", <<Col("id", "int64"), Col("ref", "string")>> >>,
     <<ShopDir, "users", <<Col("id", "int"), Col("email", "string"), Col("bio", "*string")>> >>,
     <<ShopDir, "orders", <<Col("id", "int64")>> >>,
     <<EventsDir, "events",
       <<Col("id", "int"), Col("at", "time.Time"), Col("payload", "json.RawMessage")>> >>,
     <<EventsDir, "logs", <<Col("id", "int"), Col("at", "*time.Time"), Col("body", "*string")>> >>,
     <<EventsDir, "tags", <<Col("id", "int"), Col("meta", "json.RawMessage")>> >>}

FinalTables(d) == {e[2] : e \in {x \in FinalSchemas : x[1] = d}}

FinalColumns(d, t) == (CHOOSE e \in FinalSchemas : e[1] = d /\ e[2] = t)[3]

C26_EmitAfterAllApplied ==
    [][/\ output' # output =>
             /\ pc = "emit" /\ migrationFiles = <<>> /\ pending = <<>>
             /\ DOMAIN tables \ {"schema_migrations"} = FinalTables(dir)
             /\ \A t \in FinalTables(dir) :
                   /\ [i \in 1..Len(tables[t].Columns) |->
                          Col(tables[t].Columns[i].Name, tables[t].Columns[i].GoType)]
                        = FinalColumns(dir, t)
                   /\ (/\ outputFile(t) \in DOMAIN output'
                       /\ \/ outputFile(t) \notin DOMAIN output
                          \/ output'[outputFile(t)] # output[outputFile(t)]) =>
                         output'[outputFile(t)].Columns = FinalColumns(dir, t)
       /\ (pc \in {"emit", "done"} /\ run' = run) => tables' = tables]_vars

\* Witness of C26: the artifact of users was written in the first run over
\* the users directory, after the three files with their four statements.
C26_Witness ==
    /\ dir = UsersDir
    /\ run = 1
    /\ "users.go" \in DOMAIN output
    /\ output["users.go"].Columns = FinalColumns(UsersDir, "users")
    /\ stmt = ScenarioD

(***************************************************************************)
(* C27: an artifact imports time exactly when a column of the table's      *)
(* final schema has type time.Time or *time.Time, imports encoding/json    *)
(* exactly when a column has type json.RawMessage, and imports nothing     *)
(* otherwise; a column dropped or retyped by a later ALTER leaves no       *)
(* import behind.                                                          *)
(***************************************************************************)
ExpectedImports(f) ==
    CASE f = "events.go" -> {"time", "encoding/json"}
      [] f = "logs.go" -> {"time"}
      [] f = "tags.go" -> {"encoding/json"}
      [] OTHER -> {}

C27_ImportsFollowColumns ==
    \A f \in DOMAIN output :
        LET goTypes == {output[f].Columns[i].GoType : i \in 1..Len(output[f].Columns)}
        IN  /\ output[f].imports \subseteq {"time", "encoding/json"}
            /\ "time" \in output[f].imports <=> goTypes \cap {"time.Time", "*time.Time"} # {}
            /\ "encoding/json" \in output[f].imports <=> "json.RawMessage" \in goTypes
            /\ output[f].imports = ExpectedImports(f)

\* Witness of C27: the three artifacts of the events directory are written,
\* after body was retyped from JSON to TEXT and the DATE column seen dropped.
C27_Witness ==
    /\ dir = EventsDir
    /\ DOMAIN output = {"events.go", "logs.go", "tags.go"}
    /\ output["logs.go"].imports = {"time"}
    /\ output["tags.go"].imports = {"encoding/json"}

(***************************************************************************)
(* C28: the set of table names of the store never shrinks: a table that is *)
(* defined stays, and DROP TABLE and ALTER TABLE ... RENAME leave the      *)
(* store as it is.                                                         *)
(***************************************************************************)
C28_TablesNeverLeave ==
    [][/\ DOMAIN tables \subseteq DOMAIN tables'
       /\ stmt' \in {DropUsers, RenameUsers} => tables' = tables]_vars

\* Witness of C28: DROP TABLE users was applied to a store with the tables
\* users and orders.
C28_Witness ==
    /\ stmt = DropUsers
    /\ DOMAIN tables = {"users", "orders"}

(***************************************************************************)
(* C29: a column of a defined table stays in the table, with the           *)
(* attributes it has, through every statement but an ALTER COLUMN or a     *)
(* DROP COLUMN that names it; a later CREATE TABLE for the same table      *)
(* discards no column and undoes no ALTER COLUMN.                          *)
(***************************************************************************)
NamesColumn(s, t, c) ==
    \E a \in AlterColumnStatements \cup DropStatements :
        a.text = s /\ a.table = t /\ a.column = c

C29_ColumnsStay ==
    [][\A t \in DOMAIN tables :
          \A i \in 1..Len(tables[t].Columns) :
             ~NamesColumn(stmt', t, tables[t].Columns[i].Name) =>
                /\ t \in DOMAIN tables'
                /\ tables[t].Columns[i] \in Range(tables'[t].Columns)]_vars

(***************************************************************************)
(* C30: ALTER TABLE ... ADD adds the columns its clauses declare and no    *)
(* other: after ADD COLUMN a INT, ADD COLUMN b TEXT the table has a and b  *)
(* with their types and no column named after a keyword.                   *)
(***************************************************************************)
C30_AddDeclaredColumnsOnly ==
    (call.op = "processMigrationContent" /\ result.done /\ call.content = SeveralClauses) =>
        [i \in 1..Len(result.value["t"].Columns) |->
            <<result.value["t"].Columns[i].Name, result.value["t"].Columns[i].Type>>]
          = << <<"id", "int">>, <<"a", "int">>, <<"b", "text">> >>

====
